---- MODULE Spec2Model ----
(***************************************************************************)
(* Model of combine_csv.py: the column detector (choose_timestamp_column,  *)
(* detect_xyz_columns), the session merger (merge_session), the            *)
(* per-activity session loop of main, the whole run of main up to its exit *)
(* status, and the choice of output paths (make_unique_path, and           *)
(* unique_target_path of extract_from_zip.py).                             *)
(*                                                                         *)
(* Column names are strings; a cell is a pair <<kind, value>> with kind    *)
(* "num" (a number read from the CSV), "text" (a non-numeric string) or    *)
(* "nan" (the missing marker pandas produces).                             *)
(***************************************************************************)
EXTENDS Integers, Sequences, FiniteSets, TLC

VARIABLES
    df_columns,         \* detector: the column names of the table under test
    ts_col,             \* detector: result of choose_timestamp_column, or NotRun
    xyz,                \* detector: result of detect_xyz_columns, or NotRun
    accel,              \* merger: the accelerometer table
    gyro,               \* merger: the gyroscope table
    merged,             \* merger: result of merge_session, or NotRun
    sessions,           \* main: the session directories of the activity, in order
    verbose,            \* main: args.verbose
    add_session,        \* main: args.add_session
    pc,                 \* main: position in the session loop
    sess_idx,           \* main: index of the session the loop is at
    per_activity_rows,  \* main: list of merged session tables
    processed_sessions, \* main: counter of merged sessions
    printed,            \* main: the messages printed so far
    out_file,           \* main: the table written by to_csv, or NotRun
    activities,         \* main: the activity folders of the run, in order
    act_idx,            \* main: index of the activity the run is at
    total_processed_activities, \* main: counter of activities written
    exit_code,          \* main: the status the process ended with, or NoExit
    overwrite,          \* args.overwrite
    fs,                 \* the files that exist: path -> ordinal of the write
    requested,          \* the path asked for by the last write, or ""
    out_path            \* the path chosen for the last write, or ""

vars == <<df_columns, ts_col, xyz, accel, gyro, merged, sessions, verbose,
          add_session, pc, sess_idx, per_activity_rows, processed_sessions,
          printed, out_file, activities, act_idx, total_processed_activities,
          exit_code, overwrite, fs, requested, out_path>>

detectVars == <<df_columns, ts_col, xyz>>
mergeVars == <<accel, gyro, merged>>
mainVars == <<sessions, verbose, add_session, pc, sess_idx, per_activity_rows,
              processed_sessions, printed, out_file>>

runVars == <<activities, act_idx, total_processed_activities, exit_code>>
fileVars == <<overwrite, fs, requested, out_path>>

\* Marker for "this operation has not run yet".
NotRun == [status |-> "not_run"]

(***************************************************************************)
(* Bounds                                                                  *)
(***************************************************************************)
MaxCols == 3
MaxRows == 2
MaxSessions == 3
MaxActivities == 2
MaxWrites == 3

(***************************************************************************)
(* String helpers (str.lower, re.search, re.split, str.endswith, strip)    *)
(***************************************************************************)
Char(s, i) == SubSeq(s, i, i)

Digits == {"0","1","2","3","4","5","6","7","8","9"}
Whitespace == {" "}
LowerLetters == {"a","b","c","d","e","f","g","h","i","j","k","l","m",
                 "n","o","p","q","r","s","t","u","v","w","x","y","z"}

\* str.lower() on one character.
LowerOf ==
    [c \in {"A","B","C","D","E","F","G","H","I","J","K","L","M",
            "N","O","P","Q","R","S","T","U","V","W","X","Y","Z"} |->
        CASE c = "A" -> "a" [] c = "B" -> "b" [] c = "C" -> "c" [] c = "D" -> "d"
          [] c = "E" -> "e" [] c = "F" -> "f" [] c = "G" -> "g" [] c = "H" -> "h"
          [] c = "I" -> "i" [] c = "J" -> "j" [] c = "K" -> "k" [] c = "L" -> "l"
          [] c = "M" -> "m" [] c = "N" -> "n" [] c = "O" -> "o" [] c = "P" -> "p"
          [] c = "Q" -> "q" [] c = "R" -> "r" [] c = "S" -> "s" [] c = "T" -> "t"
          [] c = "U" -> "u" [] c = "V" -> "v" [] c = "W" -> "w" [] c = "X" -> "x"
          [] c = "Y" -> "y" [] c = "Z" -> "z"]

LowerChar(c) == IF c \in DOMAIN LowerOf THEN LowerOf[c] ELSE c

RECURSIVE Lower(_)
Lower(s) == IF Len(s) = 0 THEN "" ELSE LowerChar(Char(s, 1)) \o Lower(Tail(s))

\* re.search(pattern, c, flags=re.I) for a literal lowercase pattern.
Contains(s, p) ==
    \E i \in 1..(Len(s) - Len(p) + 1) : SubSeq(s, i, i + Len(p) - 1) = p

ReSearchI(pattern, c) == Contains(Lower(c), pattern)

EndsWith(s, suffix) ==
    /\ Len(s) >= Len(suffix)
    /\ SubSeq(s, Len(s) - Len(suffix) + 1, Len(s)) = suffix

\* [a-z0-9]
IsAlnum(c) == c \in LowerLetters \/ c \in Digits

\* re.split(r"[^a-z0-9]+", low) with the empty tokens filtered out.
RECURSIVE SplitTokens(_, _, _)
SplitTokens(s, cur, acc) ==
    IF Len(s) = 0
    THEN (IF cur = "" THEN acc ELSE Append(acc, cur))
    ELSE IF IsAlnum(Char(s, 1))
         THEN SplitTokens(Tail(s), cur \o Char(s, 1), acc)
         ELSE SplitTokens(Tail(s), "", IF cur = "" THEN acc ELSE Append(acc, cur))

Tokens(low) == SplitTokens(low, "", <<>>)

RECURSIVE LStrip(_)
LStrip(s) == IF Len(s) > 0 /\ Char(s, 1) \in Whitespace THEN LStrip(Tail(s)) ELSE s

RECURSIVE RStrip(_)
RStrip(s) ==
    IF Len(s) > 0 /\ Char(s, Len(s)) \in Whitespace
    THEN RStrip(SubSeq(s, 1, Len(s) - 1))
    ELSE s

Strip(s) == LStrip(RStrip(s))

InSeq(e, seq) == \E i \in 1..Len(seq) : seq[i] = e

(***************************************************************************)
(* Column Detector                                                         *)
(***************************************************************************)
\* Variant of TS_PATTERNS: "ts" tried before "time".
TS_PATTERNS_TsFirst == <<"ts", "time", "timestamp", "seconds", "sec", "elapsed">>

TS_PATTERNS == <<"time", "timestamp", "ts", "seconds", "sec", "elapsed">>

\* The inner loop "for c in df.columns: if re.search(...): return c":
\* index of the first column at or after i that matches, 0 when none does.
RECURSIVE FirstMatchFrom(_, _, _)
FirstMatchFrom(cols, pattern, i) ==
    IF i > Len(cols) THEN 0
    ELSE IF ReSearchI(pattern, cols[i]) THEN i
    ELSE FirstMatchFrom(cols, pattern, i + 1)

\* The outer loop over the patterns, then the fallback to the first column.
RECURSIVE ChooseFromPattern(_, _)
ChooseFromPattern(cols, k) ==
    IF k > Len(TS_PATTERNS) THEN cols[1]
    ELSE IF FirstMatchFrom(cols, TS_PATTERNS[k], 1) # 0
         THEN cols[FirstMatchFrom(cols, TS_PATTERNS[k], 1)]
         ELSE ChooseFromPattern(cols, k + 1)

\* Variant of choose_timestamp_column: the loops swapped, so that the first
\* column matching any pattern is returned.
choose_timestamp_column_ColumnMajor(cols) ==
    LET hits == {i \in 1..Len(cols) :
                    \E k \in 1..Len(TS_PATTERNS) : ReSearchI(TS_PATTERNS[k], cols[i])}
    IN  IF hits = {} THEN cols[1]
        ELSE cols[CHOOSE i \in hits : \A j \in hits : i <= j]

choose_timestamp_column(cols) == ChooseFromPattern(cols, 1)

AXES == <<"x", "y", "z">>

\* re.search(r"time|timestamp|sec|elapsed", col, flags=re.I)
TimeLike(col) ==
    \/ ReSearchI("time", col)
    \/ ReSearchI("timestamp", col)
    \/ ReSearchI("sec", col)
    \/ ReSearchI("elapsed", col)

\* mapping[axis] = col
Assign(mapping, axis, col) ==
    [a \in (DOMAIN mapping) \cup {axis} |-> IF a = axis THEN col ELSE mapping[a]]

\* The inner "for axis in (x, y, z)" of the token pass, for one column.
RECURSIVE TokenAxes(_, _, _)
TokenAxes(mapping, col, k) ==
    IF k > Len(AXES) THEN mapping
    ELSE IF InSeq(AXES[k], Tokens(Lower(col))) /\ AXES[k] \notin DOMAIN mapping
         THEN TokenAxes(Assign(mapping, AXES[k], col), col, k + 1)
         ELSE TokenAxes(mapping, col, k + 1)

\* First pass: every column that is not timestamp-like, in declaration order.
RECURSIVE TokenPass(_, _, _)
TokenPass(mapping, cols, i) ==
    IF i > Len(cols) THEN mapping
    ELSE IF TimeLike(cols[i]) THEN TokenPass(mapping, cols, i + 1)
    ELSE TokenPass(TokenAxes(mapping, cols[i], 1), cols, i + 1)

\* Second pass, one axis: the first column whose lowercased name ends with it.
RECURSIVE SuffixCols(_, _, _, _)
SuffixCols(mapping, axis, cols, i) ==
    IF i > Len(cols) THEN mapping
    ELSE IF EndsWith(Lower(cols[i]), axis) /\ axis \notin DOMAIN mapping
         THEN SuffixCols(Assign(mapping, axis, cols[i]), axis, cols, i + 1)
         ELSE SuffixCols(mapping, axis, cols, i + 1)

RECURSIVE SuffixPass(_, _, _)
SuffixPass(mapping, cols, k) ==
    IF k > Len(AXES) THEN mapping
    ELSE IF AXES[k] \notin DOMAIN mapping
         THEN SuffixPass(SuffixCols(mapping, AXES[k], cols, 1), cols, k + 1)
         ELSE SuffixPass(mapping, cols, k + 1)

\* Third pass, one axis: every column whose stripped lowercased name is the
\* axis letter is assigned in turn (no "not in mapping" test: the last wins).
RECURSIVE ExactCols(_, _, _, _)
ExactCols(mapping, axis, cols, i) ==
    IF i > Len(cols) THEN mapping
    ELSE IF Lower(Strip(cols[i])) = axis
         THEN ExactCols(Assign(mapping, axis, cols[i]), axis, cols, i + 1)
         ELSE ExactCols(mapping, axis, cols, i + 1)

RECURSIVE ExactPass(_, _, _)
ExactPass(mapping, cols, k) ==
    IF k > Len(AXES) THEN mapping
    ELSE IF AXES[k] \notin DOMAIN mapping
         THEN ExactPass(ExactCols(mapping, AXES[k], cols, 1), cols, k + 1)
         ELSE ExactPass(mapping, cols, k + 1)

EmptyMapping == [a \in {} |-> ""]

\* The mapping as it stands after the three passes.
AxisPasses(cols) == ExactPass(SuffixPass(TokenPass(EmptyMapping, cols, 1), cols, 1), cols, 1)

\* Variant of AllAxesFound: two axes are taken to be enough.
AllAxesFound_TwoSuffice(mapping) == Cardinality(DOMAIN mapping) >= 2

\* "if len(mapping) != 3: raise ValueError"
AllAxesFound(mapping) == Cardinality(DOMAIN mapping) = 3

detect_xyz_columns(cols) ==
    LET mapping == AxisPasses(cols)
    IN  IF ~AllAxesFound(mapping)
        THEN [status |-> "error", mapping |-> mapping]
        ELSE [status |-> "ok", mapping |-> mapping]

(***************************************************************************)
(* DataFrame operations used by merge_session.  A table is a record        *)
(* [columns, rows]; a row is a sequence of cells aligned with columns.     *)
(* Column labels need not be unique once columns are selected or renamed.  *)
(***************************************************************************)
Num(n) == <<"num", n>>
Text(k) == <<"text", k>>
NaN == <<"nan", 0>>

OUTPUT_COLS == <<"timestamp", "accel_x", "accel_y", "accel_z", "gyro_x", "gyro_y", "gyro_z">>

RECURSIVE Flatten(_)
Flatten(seqs) == IF seqs = <<>> THEN <<>> ELSE Head(seqs) \o Flatten(Tail(seqs))

\* Positions of the columns labelled name, in column order.
RECURSIVE PositionsFrom(_, _, _)
PositionsFrom(cols, name, i) ==
    IF i > Len(cols) THEN <<>>
    ELSE (IF cols[i] = name THEN <<i>> ELSE <<>>) \o PositionsFrom(cols, name, i + 1)

ColPositions(cols, name) == PositionsFrom(cols, name, 1)

\* df[[n1, n2, ...]]: every column carrying each label, in the order asked.
SelectColumns(df, names) ==
    LET pos == Flatten([k \in 1..Len(names) |-> ColPositions(df.columns, names[k])])
    IN  [columns |-> [k \in 1..Len(pos) |-> df.columns[pos[k]]],
         rows |-> [r \in 1..Len(df.rows) |-> [k \in 1..Len(pos) |-> df.rows[r][pos[k]]]]]

\* df.rename(columns={old: new})
RenameColumn(df, old, new) ==
    [df EXCEPT !.columns = [k \in 1..Len(df.columns) |->
                               IF df.columns[k] = old THEN new ELSE df.columns[k]]]

\* The dict literal {m["x"]: p_x, m["y"]: p_y, m["z"]: p_z}: when two axes
\* are bound to the same column the later entry replaces the earlier one.
AxisRenameTarget(mapping, prefix, col) ==
    IF mapping["z"] = col THEN prefix \o "_z"
    ELSE IF mapping["y"] = col THEN prefix \o "_y"
    ELSE IF mapping["x"] = col THEN prefix \o "_x"
    ELSE col

RenameAxes(df, mapping, prefix) ==
    [df EXCEPT !.columns = [k \in 1..Len(df.columns) |->
                               AxisRenameTarget(mapping, prefix, df.columns[k])]]

\* pd.to_numeric(..., errors="coerce") on one cell.
ToNumeric(cell) == IF cell[1] = "num" THEN cell ELSE NaN

\* df[label] = pd.to_numeric(df[label], errors="coerce"); label is unique.
CoerceColumn(df, label) ==
    LET p == ColPositions(df.columns, label)[1]
    IN  [df EXCEPT !.rows = [r \in 1..Len(df.rows) |->
                                [df.rows[r] EXCEPT ![p] = ToNumeric(df.rows[r][p])]]]

HasUniqueColumn(df, label) == Len(ColPositions(df.columns, label)) = 1

\* Equality of join keys as pd.merge decides it: keys are factorized and all
\* missing keys share one code, so a missing key equals a missing key.
KeysMatch(k1, k2) == k1 = k2

\* Variant of KeyBefore: the key groups in descending order.
KeyBefore_Descending(k1, k2) ==
    IF k1[1] = "nan" THEN FALSE
    ELSE IF k2[1] = "nan" THEN TRUE
    ELSE k1[2] > k2[2]

\* Key order of pd.merge(sort=True): numbers ascending, the missing key last.
KeyBefore(k1, k2) ==
    IF k1[1] = "nan" THEN FALSE
    ELSE IF k2[1] = "nan" THEN TRUE
    ELSE k1[2] < k2[2]

RECURSIVE SortKeys(_)
SortKeys(S) ==
    IF S = {} THEN <<>>
    ELSE LET m == CHOOSE k \in S : \A o \in S \ {k} : KeyBefore(k, o)
         IN  <<m>> \o SortKeys(S \ {m})

DropAt(seq, p) == SubSeq(seq, 1, p - 1) \o SubSeq(seq, p + 1, Len(seq))

\* Variant of InnerJoin: a lookup join, each left row paired with the first
\* matching right row only.
InnerJoin_FirstMatch(left, right, key) ==
    LET lp == ColPositions(left.columns, key)[1]
        rp == ColPositions(right.columns, key)[1]
        lkeys == {left.rows[i][lp] : i \in 1..Len(left.rows)}
        rkeys == {right.rows[j][rp] : j \in 1..Len(right.rows)}
        order == SortKeys({k \in lkeys : \E q \in rkeys : KeysMatch(k, q)})
        LeftOf(k) == SelectSeq(left.rows, LAMBDA r : KeysMatch(r[lp], k))
        RightOf(k) == SelectSeq(right.rows, LAMBDA r : KeysMatch(r[rp], k))
        Group(k) == [i \in 1..Len(LeftOf(k)) |-> LeftOf(k)[i] \o DropAt(RightOf(k)[1], rp)]
    IN  [columns |-> left.columns \o DropAt(right.columns, rp),
         rows |-> Flatten([n \in 1..Len(order) |-> Group(order[n])])]

\* pd.merge(left, right, on=key, how="inner", sort=True) where key labels
\* exactly one column on each side: key groups in sorted order; within a
\* group every left row, in left order, paired with every right row, in
\* right order; the right key column is dropped from the result.
InnerJoin(left, right, key) ==
    LET lp == ColPositions(left.columns, key)[1]
        rp == ColPositions(right.columns, key)[1]
        lkeys == {left.rows[i][lp] : i \in 1..Len(left.rows)}
        rkeys == {right.rows[j][rp] : j \in 1..Len(right.rows)}
        common == {k \in lkeys : \E q \in rkeys : KeysMatch(k, q)}
        order == SortKeys(common)
        LeftOf(k) == SelectSeq(left.rows, LAMBDA r : KeysMatch(r[lp], k))
        RightOf(k) == SelectSeq(right.rows, LAMBDA r : KeysMatch(r[rp], k))
        Group(k) == Flatten([i \in 1..Len(LeftOf(k)) |->
                       [j \in 1..Len(RightOf(k)) |->
                           LeftOf(k)[i] \o DropAt(RightOf(k)[j], rp)]])
    IN  [columns |-> left.columns \o DropAt(right.columns, rp),
         rows |-> Flatten([n \in 1..Len(order) |-> Group(order[n])])]

\* cols_present = [c for c in OUTPUT_COLS if c in merged.columns]
ColsPresent(cols) == SelectSeq(OUTPUT_COLS, LAMBDA c : InSeq(c, cols))

(***************************************************************************)
(* Session Merger                                                          *)
(***************************************************************************)
\* merge_session raises: in detect_xyz_columns, or later in pd.merge.
MergeError(raised_in) == [status |-> "error", raised_in |-> raised_in]

\* common_ts = ts_a if ts_a == ts_g else "timestamp"
CommonTs(ts_a, ts_g) == IF ts_a = ts_g THEN ts_a ELSE "timestamp"

\* if common_ts != ts: df = df.rename(columns={ts: common_ts})
UnifyTs(df, ts, common_ts) == IF common_ts # ts THEN RenameColumn(df, ts, common_ts) ELSE df

\* Lines 176-187: the join of the two selections, the timestamp column
\* renamed to "timestamp", the columns put in the order of OUTPUT_COLS.
JoinSelected(a_sel, g_sel, common_ts) ==
    LET joined == InnerJoin(CoerceColumn(a_sel, common_ts),
                            CoerceColumn(g_sel, common_ts), common_ts)
        named == IF common_ts # "timestamp"
                 THEN RenameColumn(joined, common_ts, "timestamp")
                 ELSE joined
        out == SelectColumns(named, ColsPresent(named.columns))
    IN  [status |-> "ok", columns |-> out.columns, rows |-> out.rows]

\* Lines 169-178.  a_sel[common_ts] and g_sel[common_ts] raise unless the
\* label names exactly one column; the except clause swallows that, and
\* pd.merge then raises on the same label.
CoerceAndJoin(a_sel, g_sel, common_ts) ==
    IF HasUniqueColumn(a_sel, common_ts) /\ HasUniqueColumn(g_sel, common_ts)
    THEN JoinSelected(a_sel, g_sel, common_ts)
    ELSE MergeError("pd.merge")

\* Lines 164-187 of merge_session, once both axis mappings are known.
MergeSelected(a, g, common_ts, am, gm) ==
    CoerceAndJoin(
        RenameAxes(SelectColumns(a, <<common_ts, am["x"], am["y"], am["z"]>>), am, "accel"),
        RenameAxes(SelectColumns(g, <<common_ts, gm["x"], gm["y"], gm["z"]>>), gm, "gyro"),
        common_ts)

\* Lines 156-187: detect_xyz_columns raises, or the merge goes on.
MergeDetected(a, g, common_ts, am, gm) ==
    IF am.status = "error" \/ gm.status = "error"
    THEN MergeError("detect_xyz_columns")
    ELSE MergeSelected(a, g, common_ts, am.mapping, gm.mapping)

\* Lines 156-158, on the tables with the unified timestamp label.
MergeUnified(a, g, common_ts) ==
    MergeDetected(a, g, common_ts, detect_xyz_columns(a.columns), detect_xyz_columns(g.columns))

\* Lines 149-154.
MergeWithTs(a_in, g_in, ts_a, ts_g) ==
    MergeUnified(UnifyTs(a_in, ts_a, CommonTs(ts_a, ts_g)),
                 UnifyTs(g_in, ts_g, CommonTs(ts_a, ts_g)),
                 CommonTs(ts_a, ts_g))

merge_session(a_in, g_in) ==
    MergeWithTs(a_in, g_in,
                choose_timestamp_column(a_in.columns), choose_timestamp_column(g_in.columns))

(***************************************************************************)
(* Activity Aggregator: the session loop of main for one activity          *)
(* (lines 285-344).  A session directory is a record telling whether       *)
(* find_sensor_files_in_session finds each file, with the tables           *)
(* safe_read_csv reads from them.                                          *)
(***************************************************************************)
\* os.path.basename of the i-th session directory, as a cell.
SessName(i) == Text(i)

Msg(stream, what, sess) == [stream |-> stream, what |-> what, sess |-> sess]

\* The print calls behind "if args.verbose" / "if verbose".
IfVerbose(v, msgs) == IF v THEN msgs ELSE <<>>

\* What merge_session itself prints when verbose: the timestamp columns
\* (line 147) and, unless detect_xyz_columns raised, the axis columns
\* (lines 161-162).
MergePrints(v, m, i) ==
    IfVerbose(v, <<Msg("stdout", "session_ts", i)>> \o
                 (IF m.status = "error" /\ m.raised_in = "detect_xyz_columns"
                  THEN <<>> ELSE <<Msg("stdout", "axis_cols", i)>>))

\* merged.insert(0, "session", sess_name)
InsertSession(df, name) ==
    [columns |-> <<"session">> \o df.columns,
     rows |-> [r \in 1..Len(df.rows) |-> <<name>> \o df.rows[r]]]

\* pd.concat(per_activity_rows, ignore_index=True, sort=False) of tables
\* that all carry the same columns.
ConcatTables(tables) ==
    [columns |-> tables[1].columns,
     rows |-> Flatten([k \in 1..Len(tables) |-> tables[k].rows])]

\* Variant of SortedArrangements: the concatenation order is kept.
SortedArrangements_Unsorted(rows, p) == {rows}

\* sort_values(by="timestamp"): ascending, missing values last.  The default
\* sort kind is not stable, so every arrangement that is sorted by the
\* timestamp cell (position p) is a possible outcome.
RECURSIVE ArrangeIdx(_, _, _)
ArrangeIdx(rows, p, left) ==
    IF left = {} THEN {<<>>}
    ELSE LET firsts == {i \in left : \A j \in left : ~KeyBefore(rows[j][p], rows[i][p])}
         IN  UNION {{<<i>> \o rest : rest \in ArrangeIdx(rows, p, left \ {i})} : i \in firsts}

SortedArrangements(rows, p) ==
    {[k \in 1..Len(rows) |-> rows[order[k]]] : order \in ArrangeIdx(rows, p, 1..Len(rows))}

\* pd.concat raises when a table carries a column label twice and the
\* tables do not all carry the same labels: the tables would have to be
\* aligned on the union of the labels, and a duplicated label cannot be.
HasDuplicateColumn(cols) == \E i, j \in 1..Len(cols) : i # j /\ cols[i] = cols[j]

ConcatRaises(tables) ==
    \E k, j \in 1..Len(tables) :
        HasDuplicateColumn(tables[k].columns) /\ tables[j].columns # tables[k].columns

(***************************************************************************)
(* Paths and the files that exist.  A path is a string with "/" between    *)
(* its components; files is the set of paths that exist.                   *)
(***************************************************************************)
\* Position of the last occurrence of character c in s, 0 if there is none
\* (str.rfind, counted from 1).
RECURSIVE RFind(_, _, _)
RFind(s, c, i) == IF i = 0 \/ Char(s, i) = c THEN i ELSE RFind(s, c, i - 1)

\* os.path.splitext: the extension starts at the last dot of the last
\* component, unless only dots come before it in that component.
splitext(p) ==
    LET sepIndex == RFind(p, "/", Len(p))
        dotIndex == RFind(p, ".", Len(p))
    IN  IF dotIndex > sepIndex /\ \E k \in (sepIndex + 1)..(dotIndex - 1) : Char(p, k) # "."
        THEN <<SubSeq(p, 1, dotIndex - 1), SubSeq(p, dotIndex, Len(p))>>
        ELSE <<p, "">>

\* os.path.join of a directory and a name that has no separator.
join(dir, name) ==
    IF dir = "" THEN name
    ELSE IF Char(dir, Len(dir)) = "/" THEN dir \o name
    ELSE dir \o "/" \o name

\* The decimal numeral of a natural number, as the f-string writes idx.
RECURSIVE Str(_)
Str(n) ==
    IF n < 10 THEN Char("0123456789", n + 1)
    ELSE Str(n \div 10) \o Char("0123456789", (n % 10) + 1)

\* Variant of NumberedCandidate: the number is put after the extension.
NumberedCandidate_AfterExt(base, ext, idx) == base \o ext \o "_" \o Str(idx)

\* f"{base}_{idx}{ext}"
NumberedCandidate(base, ext, idx) == base \o "_" \o Str(idx) \o ext

\* Lines 194-198: the while loop, entered with idx = 1.
RECURSIVE FirstFreeCandidate(_, _, _, _)
FirstFreeCandidate(base, ext, idx, files) ==
    IF NumberedCandidate(base, ext, idx) \in files
    THEN FirstFreeCandidate(base, ext, idx + 1, files)
    ELSE NumberedCandidate(base, ext, idx)

make_unique_path(path, ow, files) ==
    IF ow \/ path \notin files THEN path
    ELSE FirstFreeCandidate(splitext(path)[1], splitext(path)[2], 1, files)

\* Lines 86-90 of extract_from_zip.py: the while loop, entered with
\* idx = 0 and target the path of the plain basename.
RECURSIVE NextFreeTarget(_, _, _, _, _, _)
NextFreeTarget(dest_dir, base, ext, idx, target, files) ==
    IF target \in files
    THEN NextFreeTarget(dest_dir, base, ext, idx + 1,
                        join(dest_dir, NumberedCandidate(base, ext, idx + 1)), files)
    ELSE target

unique_target_path(dest_dir, basename, ow, files) ==
    IF ow THEN join(dest_dir, basename)
    ELSE NextFreeTarget(dest_dir, splitext(basename)[1], splitext(basename)[2], 0,
                        join(dest_dir, basename), files)

\* The ordinal of the latest write in files (0: none since the start).
RECURSIVE Latest(_, _)
Latest(files, S) ==
    IF S = {} THEN 0
    ELSE LET p == CHOOSE q \in S : TRUE
             rest == Latest(files, S \ {p})
         IN  IF files[p] > rest THEN files[p] ELSE rest

\* Opening path for writing creates the file or replaces its content.
WriteFile(files, path) ==
    [p \in (DOMAIN files) \cup {path} |->
        IF p = path THEN Latest(files, DOMAIN files) + 1 ELSE files[p]]

\* Lines 329-335: the name and the path of the activity's file.
OutName(name_token, activity_name) ==
    IF name_token # "" THEN name_token \o "_" \o activity_name \o "_combined.csv"
    ELSE activity_name \o "_combined.csv"

\* Lines 339-342: the columns handed to to_csv.
CsvColumns(with_session, cols) ==
    IF with_session /\ InSeq("session", cols)
    THEN <<"session">> \o ColsPresent(cols)
    ELSE ColsPresent(cols)

(***************************************************************************)
(* Idle values: each specification drives one component and leaves the     *)
(* variables of the other components at these values.                      *)
(***************************************************************************)
DetectIdle == df_columns = <<>> /\ ts_col = NotRun /\ xyz = NotRun

MergeIdle == accel = NotRun /\ gyro = NotRun /\ merged = NotRun

\* exit_code is <<status>> once the process has ended.
NoExit == <<>>

NoFiles == [p \in {} |-> 0]

RunIdle ==
    /\ activities = <<>>
    /\ act_idx = 0
    /\ total_processed_activities = 0
    /\ exit_code = NoExit

FileIdle == overwrite = FALSE /\ fs = NoFiles /\ requested = "" /\ out_path = ""

MainIdle ==
    /\ sessions = <<>>
    /\ verbose = FALSE
    /\ add_session = FALSE
    /\ pc = "idle"
    /\ sess_idx = 0
    /\ per_activity_rows = <<>>
    /\ processed_sessions = 0
    /\ printed = <<>>
    /\ out_file = NotRun
    /\ RunIdle
    /\ FileIdle

(***************************************************************************)
(* Specification SpecDetect: the column detector applied to a table whose  *)
(* column names are drawn from ColumnPool (names are unique in a table).   *)
(***************************************************************************)
ColumnPool ==
    {"timestamp", "datetime", "Time", "ts", "seconds", "elapsed",
     "x", "ay", "gyro_z", "x_y", "time_z", "id"}

ColumnLists ==
    UNION {{f \in [1..n -> ColumnPool] : \A i, j \in 1..n : i # j => f[i] # f[j]} :
           n \in 1..MaxCols}

InitDetect ==
    /\ df_columns \in ColumnLists
    /\ ts_col = NotRun
    /\ xyz = NotRun
    /\ MergeIdle
    /\ MainIdle

DetectTimestamp ==
    /\ ts_col = NotRun
    /\ ts_col' = [status |-> "ok", col |-> choose_timestamp_column(df_columns)]
    /\ UNCHANGED <<df_columns, xyz, mergeVars, mainVars, runVars, fileVars>>

DetectAxes ==
    /\ xyz = NotRun
    /\ xyz' = detect_xyz_columns(df_columns)
    /\ UNCHANGED <<df_columns, ts_col, mergeVars, mainVars, runVars, fileVars>>

NextDetect == DetectTimestamp \/ DetectAxes

SpecDetect == InitDetect /\ [][NextDetect]_vars

(***************************************************************************)
(* Claims about the column detector (checked under SpecDetect)             *)
(***************************************************************************)
ColIdx == 1..Len(df_columns)

PatternHasMatch(k) == \E i \in ColIdx : ReSearchI(TS_PATTERNS[k], df_columns[i])

MatchedPatterns == {k \in 1..Len(TS_PATTERNS) : PatternHasMatch(k)}

FirstMatchedPattern == CHOOSE k \in MatchedPatterns : \A m \in MatchedPatterns : k <= m

FirstColumnMatching(pattern) ==
    CHOOSE i \in ColIdx :
        /\ ReSearchI(pattern, df_columns[i])
        /\ \A j \in ColIdx : ReSearchI(pattern, df_columns[j]) => i <= j

\* C3: the patterns are time, timestamp, ts, seconds, sec, elapsed, tried in
\* that order as case-insensitive substrings; the result is the first column,
\* in declaration order, matching the first pattern that has any match, and
\* the first column of the table when no pattern matches any column.
C3_PatternPriority ==
    /\ TS_PATTERNS = <<"time", "timestamp", "ts", "seconds", "sec", "elapsed">>
    /\ ts_col # NotRun =>
         IF MatchedPatterns = {}
         THEN ts_col.col = df_columns[1]
         ELSE ts_col.col = df_columns[FirstColumnMatching(TS_PATTERNS[FirstMatchedPattern])]

\* C3 witness: the pattern order overrides the column order: the returned
\* column is not the first one, and an earlier column matches a later pattern.
C3_Witness ==
    /\ ts_col # NotRun
    /\ MatchedPatterns # {}
    /\ \E i, j \in ColIdx :
         /\ i < j
         /\ ts_col.col = df_columns[j]
         /\ \E k \in MatchedPatterns :
              k > FirstMatchedPattern /\ ReSearchI(TS_PATTERNS[k], df_columns[i])

\* C4 as stated: whenever the table has a column literally named
\* "timestamp", that column is returned, whatever the other columns are.
C4_TimestampAlwaysWins ==
    (ts_col # NotRun /\ InSeq("timestamp", df_columns)) => ts_col.col = "timestamp"

TimestampIdx == CHOOSE i \in ColIdx : df_columns[i] = "timestamp"

\* C4 amended: when the table has a column literally named "timestamp", the
\* result is the first column whose name contains "time" (case-insensitive);
\* it is the "timestamp" column exactly when no column declared before it
\* has a name containing "time".
C4_TimestampUnlessEarlierTime ==
    (ts_col # NotRun /\ InSeq("timestamp", df_columns)) =>
        /\ ts_col.col = df_columns[FirstColumnMatching("time")]
        /\ ts_col.col = "timestamp" <=>
             \A j \in ColIdx : j < TimestampIdx => ~ReSearchI("time", df_columns[j])

\* C4 witness: a "timestamp" column that is not the first column is returned
\* although an earlier column matches another pattern.
C4_Witness ==
    /\ ts_col # NotRun
    /\ InSeq("timestamp", df_columns)
    /\ TimestampIdx > 1
    /\ ts_col.col = "timestamp"
    /\ \E j \in ColIdx : j < TimestampIdx /\ ReSearchI("ts", df_columns[j])

AxisSet == {AXES[k] : k \in 1..Len(AXES)}

\* No column can carry the axis: none has it as a token (outside the
\* timestamp-like columns), none ends with it, none is exactly the letter.
AxisMissingEntirely(axis) ==
    \A i \in ColIdx :
        /\ TimeLike(df_columns[i]) \/ ~InSeq(axis, Tokens(Lower(df_columns[i])))
        /\ ~EndsWith(Lower(df_columns[i]), axis)
        /\ Lower(Strip(df_columns[i])) # axis

\* C5: detection never returns a partial mapping: the result is either a
\* mapping with exactly the keys x, y, z, each bound to a column of the
\* table, or SchemaError; it is SchemaError whenever an axis is unassigned
\* after the three passes, which is the case exactly when some axis is
\* missing from the table entirely.
C5_NoPartialMapping ==
    xyz # NotRun =>
        /\ xyz.status \in {"ok", "error"}
        /\ xyz.status = "ok" =>
             /\ DOMAIN xyz.mapping = {"x", "y", "z"}
             /\ \A a \in AxisSet : InSeq(xyz.mapping[a], df_columns)
        /\ xyz.status = "error" <=> (DOMAIN xyz.mapping # AxisSet)
        /\ xyz.status = "error" <=> (\E a \in AxisSet : AxisMissingEntirely(a))

\* C5 witness: two axes were found, the third is missing entirely, and
\* detection failed.
C5_Witness ==
    /\ xyz # NotRun
    /\ xyz.status = "error"
    /\ Cardinality(DOMAIN xyz.mapping) = 2
    /\ \E a \in AxisSet : AxisMissingEntirely(a)

(***************************************************************************)
(* Specification SpecMerge: merge_session applied to one accelerometer     *)
(* table and one gyroscope table.  A schema names its columns, the         *)
(* position of the column holding the timestamps and, when each axis has   *)
(* a column of its own, the positions of the x, y and z columns (axesAt,   *)
(* empty otherwise).  A row is built from a timestamp cell and a tag that  *)
(* makes its other cells recognisable.                                     *)
(***************************************************************************)
AccelSchemas ==
    {[columns |-> <<"time", "x", "y", "z">>, tsAt |-> 1, axesAt |-> <<2, 3, 4>>],
     [columns |-> <<"seconds_elapsed", "z", "y", "x">>, tsAt |-> 1, axesAt |-> <<4, 3, 2>>],
     [columns |-> <<"id", "Timestamp", "ax", "ay", "az">>, tsAt |-> 2, axesAt |-> <<3, 4, 5>>],
     [columns |-> <<"time", "x_y", "z">>, tsAt |-> 1, axesAt |-> <<>>],
     [columns |-> <<"time", "x", "y">>, tsAt |-> 1, axesAt |-> <<>>],
     [columns |-> <<"datetime", "timestamp", "x", "y", "z">>, tsAt |-> 1, axesAt |-> <<>>],
     [columns |-> <<"tsx", "y", "z">>, tsAt |-> 1, axesAt |-> <<>>]}

GyroSchemas ==
    {[columns |-> <<"time", "x", "y", "z">>, tsAt |-> 1, axesAt |-> <<2, 3, 4>>],
     [columns |-> <<"timestamp", "gyro_x", "gyro_y", "gyro_z">>, tsAt |-> 1,
      axesAt |-> <<2, 3, 4>>],
     [columns |-> <<"tsx", "y", "z">>, tsAt |-> 1, axesAt |-> <<>>]}

\* The pair of schemas under which every combination of rows is explored;
\* the other pairs are explored with at most one row per table.
RefAccelColumns == <<"seconds_elapsed", "z", "y", "x">>
RefGyroColumns == <<"timestamp", "gyro_x", "gyro_y", "gyro_z">>

TsValues == {Num(1), Num(2), Text(1), Text(2)}

\* <<timestamp cell, tag>>: timestamp 1 comes with two different tags, and
\* there are two different non-numeric timestamps.
RowTypes == {<<Num(1), 1>>, <<Num(1), 2>>, <<Num(2), 1>>, <<Text(1), 1>>, <<Text(2), 2>>}

RowSpecs == UNION {[1..n -> RowTypes] : n \in 0..MaxRows}

MakeRow(schema, ts, tag) ==
    [j \in 1..Len(schema.columns) |-> IF j = schema.tsAt THEN ts ELSE Num(10 * tag + j)]

MakeTable(schema, rowspec) ==
    [columns |-> schema.columns,
     rows |-> [r \in 1..Len(rowspec) |-> MakeRow(schema, rowspec[r][1], rowspec[r][2])]]

InitMerge ==
    /\ \E sa \in AccelSchemas, sg \in GyroSchemas, ra \in RowSpecs, rg \in RowSpecs :
         /\ \/ sa.columns = RefAccelColumns /\ sg.columns = RefGyroColumns
            \/ Len(ra) <= 1 /\ Len(rg) <= 1
         /\ accel = MakeTable(sa, ra)
         /\ gyro = MakeTable(sg, rg)
    /\ merged = NotRun
    /\ DetectIdle
    /\ MainIdle

Merge ==
    /\ merged = NotRun
    /\ merged' = merge_session(accel, gyro)
    /\ UNCHANGED <<accel, gyro, detectVars, mainVars, runVars, fileVars>>

NextMerge == Merge

SpecMerge == InitMerge /\ [][NextMerge]_vars

(***************************************************************************)
(* Claims about the session merger (checked under SpecMerge)               *)
(***************************************************************************)
AccelSchema == CHOOSE s \in AccelSchemas : s.columns = accel.columns
GyroSchema == CHOOSE s \in GyroSchemas : s.columns = gyro.columns

\* Both tables have a column of their own for each axis.
PlainSchemas == AccelSchema.axesAt # <<>> /\ GyroSchema.axesAt # <<>>

AccelIdx == 1..Len(accel.rows)
GyroIdx == 1..Len(gyro.rows)

\* The timestamp cell of an input row, after numeric coercion.
AccelTs(i) == ToNumeric(accel.rows[i][AccelSchema.tsAt])
GyroTs(j) == ToNumeric(gyro.rows[j][GyroSchema.tsAt])

AllNumeric ==
    /\ \A i \in AccelIdx : accel.rows[i][AccelSchema.tsAt][1] = "num"
    /\ \A j \in GyroIdx : gyro.rows[j][GyroSchema.tsAt][1] = "num"

\* The canonical row joining accelerometer row i with gyroscope row j.
JoinedRow(i, j) ==
    <<AccelTs(i),
      accel.rows[i][AccelSchema.axesAt[1]],
      accel.rows[i][AccelSchema.axesAt[2]],
      accel.rows[i][AccelSchema.axesAt[3]],
      gyro.rows[j][GyroSchema.axesAt[1]],
      gyro.rows[j][GyroSchema.axesAt[2]],
      gyro.rows[j][GyroSchema.axesAt[3]]>>

MatchingPairs == {p \in AccelIdx \X GyroIdx : AccelTs(p[1]) = GyroTs(p[2])}

MergedIdx == 1..Len(merged.rows)

CountRows(rows, row) == Cardinality({n \in 1..Len(rows) : rows[n] = row})

\* The rows of the result are the joined rows of the matching pairs, each
\* as many times as there are pairs producing it.
ExactlyTheMatchingRows ==
    /\ \A n \in MergedIdx : \E p \in MatchingPairs : merged.rows[n] = JoinedRow(p[1], p[2])
    /\ \A p \in MatchingPairs :
         CountRows(merged.rows, JoinedRow(p[1], p[2])) =
             Cardinality({q \in MatchingPairs : JoinedRow(q[1], q[2]) = JoinedRow(p[1], p[2])})

NumericAscending(rows) ==
    \A m, n \in 1..Len(rows) :
        (m < n /\ rows[m][1][1] = "num" /\ rows[n][1][1] = "num") => rows[m][1][2] <= rows[n][1][2]

Perms(n) == {f \in [1..n -> 1..n] : \A i, j \in 1..n : i # j => f[i] # f[j]}

Permuted(table, f) == [table EXCEPT !.rows = [r \in 1..Len(table.rows) |-> table.rows[f[r]]]]

RowOrderIndependent ==
    \A f \in Perms(Len(accel.rows)), h \in Perms(Len(gyro.rows)) :
        merge_session(Permuted(accel, f), Permuted(gyro, h)) = merged

DisjointTimestamps == MatchingPairs = {}

\* C1 as stated: for tables whose timestamps are all numeric the result is
\* exactly the rows whose timestamp occurs in both tables, ordered by
\* timestamp ascending, and the result does not depend on the row order of
\* either input; disjoint timestamp sets give an empty table, not an error.
C1_JoinOrderIndependent ==
    (merged # NotRun /\ PlainSchemas /\ AllNumeric) =>
        /\ merged.status = "ok"
        /\ ExactlyTheMatchingRows
        /\ NumericAscending(merged.rows)
        /\ RowOrderIndependent
        /\ DisjointTimestamps => merged.rows = <<>>

\* C1 amended: for tables whose timestamps are all numeric the result is
\* exactly the rows whose timestamp occurs in both tables (as a multiset,
\* which the row order of the inputs cannot change), ordered by timestamp
\* ascending; rows sharing a timestamp follow the input order, so the row
\* sequence itself is independent of the input order when no timestamp
\* repeats within the result; disjoint timestamp sets give an empty table,
\* not an error.
C1_JoinSortedMultiset ==
    (merged # NotRun /\ PlainSchemas /\ AllNumeric) =>
        /\ merged.status = "ok"
        /\ ExactlyTheMatchingRows
        /\ NumericAscending(merged.rows)
        /\ (\A m, n \in MergedIdx : m # n => merged.rows[m][1] # merged.rows[n][1])
              => RowOrderIndependent
        /\ DisjointTimestamps => merged.rows = <<>>

\* C1 witness: a non-empty join of numeric tables given out of timestamp order.
C1_Witness ==
    /\ merged # NotRun
    /\ PlainSchemas /\ AllNumeric
    /\ merged.status = "ok"
    /\ Len(merged.rows) >= 2
    /\ merged.rows[1][1] # merged.rows[2][1]
    /\ Len(accel.rows) >= 2
    /\ accel.rows[1][AccelSchema.tsAt][2] > accel.rows[2][AccelSchema.tsAt][2]

NumericKeys == {k \in TsValues : k[1] = "num"}

\* C2: for every timestamp value t the result holds (accelerometer rows
\* with timestamp t) times (gyroscope rows with timestamp t) rows with
\* timestamp t: duplicates give the cross product and are not deduplicated.
C2_CrossProduct ==
    (merged # NotRun /\ PlainSchemas) =>
        /\ merged.status = "ok"
        /\ \A t \in NumericKeys :
             Cardinality({n \in MergedIdx : merged.rows[n][1] = t}) =
                 Cardinality({i \in AccelIdx : AccelTs(i) = t}) *
                 Cardinality({j \in GyroIdx : GyroTs(j) = t})

\* C2 witness: a timestamp that occurs twice in each input and four times in
\* the result.
C2_Witness ==
    /\ merged # NotRun
    /\ PlainSchemas
    /\ merged.status = "ok"
    /\ \E t \in NumericKeys :
         /\ Cardinality({i \in AccelIdx : AccelTs(i) = t}) = 2
         /\ Cardinality({j \in GyroIdx : GyroTs(j) = t}) = 2
         /\ Cardinality({n \in MergedIdx : merged.rows[n][1] = t}) = 4

\* C6: whenever merge_session returns without error the columns of the
\* result are exactly timestamp, accel_x, accel_y, accel_z, gyro_x, gyro_y,
\* gyro_z, in that order.
C6_CanonicalColumns ==
    (merged # NotRun /\ merged.status = "ok") => merged.columns = OUTPUT_COLS

\* C7: a row whose timestamp failed numeric coercion never appears in the
\* result: missing timestamps do not match each other.
C7_NullNeverJoined ==
    (merged # NotRun /\ merged.status = "ok") =>
        \A n \in MergedIdx : merged.rows[n][1] # NaN

(***************************************************************************)
(* Specification Spec: main's loop over the sessions of one activity.      *)
(* The tables of a session have one column per axis, or lack an axis.      *)
(***************************************************************************)
PlainAccel == [columns |-> <<"seconds_elapsed", "z", "y", "x">>, tsAt |-> 1,
               axesAt |-> <<4, 3, 2>>]
PlainGyro == [columns |-> <<"time", "x", "y", "z">>, tsAt |-> 1, axesAt |-> <<2, 3, 4>>]
NoZAccel == [columns |-> <<"time", "x", "y">>, tsAt |-> 1, axesAt |-> <<>>]
\* One column answers for two axes: the merged table carries a label twice.
TwoAxisAccel == [columns |-> <<"time", "x_y", "z">>, tsAt |-> 1, axesAt |-> <<>>]
NoTable == [columns |-> <<>>, rows |-> <<>>]

Session(has_accel, a, has_gyro, g) ==
    [has_accel |-> has_accel, accel |-> a, has_gyro |-> has_gyro, gyro |-> g]

\* The session directories that can occur, each with its content; a run
\* refers to a directory by its position in this list.
SessionPool ==
    <<Session(TRUE, MakeTable(PlainAccel, <<<<Num(3), 1>>, <<Num(1), 1>>>>),
              TRUE, MakeTable(PlainGyro, <<<<Num(1), 1>>, <<Num(3), 1>>>>)),
      Session(TRUE, MakeTable(PlainAccel, <<<<Num(2), 2>>>>),
              TRUE, MakeTable(PlainGyro, <<<<Num(2), 2>>>>)),
      Session(TRUE, MakeTable(PlainAccel, <<<<Text(1), 3>>>>),
              TRUE, MakeTable(PlainGyro, <<<<Text(2), 3>>>>)),
      Session(TRUE, MakeTable(PlainAccel, <<<<Num(1), 4>>>>),
              TRUE, MakeTable(PlainGyro, <<<<Num(2), 4>>>>)),
      Session(TRUE, MakeTable(NoZAccel, <<<<Num(1), 5>>>>),
              TRUE, MakeTable(PlainGyro, <<<<Num(1), 5>>>>)),
      Session(FALSE, NoTable, TRUE, MakeTable(PlainGyro, <<<<Num(1), 6>>>>)),
      Session(TRUE, MakeTable(PlainAccel, <<<<Num(1), 7>>>>), FALSE, NoTable),
      Session(TRUE, MakeTable(TwoAxisAccel, <<<<Num(2), 8>>>>),
              TRUE, MakeTable(PlainGyro, <<<<Num(2), 8>>>>))>>

PoolIdx == 1..Len(SessionPool)

\* merge_session tabulated for the directories of the pool (its result
\* depends on the two files only).
MergeEntry(d) ==
    IF SessionPool[d].has_accel /\ SessionPool[d].has_gyro
    THEN merge_session(SessionPool[d].accel, SessionPool[d].gyro)
    ELSE NotRun

RECURSIVE MergeTable(_)
MergeTable(d) == IF d = 0 THEN <<>> ELSE Append(MergeTable(d - 1), MergeEntry(d))

MergeOf == MergeTable(Len(SessionPool))

MergeResult(d) == MergeOf[d]

\* An activity folder: its name, whether it is a directory, and its
\* session directories.
Activity(name, is_dir, sess) == [name |-> name, is_dir |-> is_dir, sessions |-> sess]

\* The names of the activity folders, by position in the run.
ActivityNames == <<"walk", "run", "jump", "sit">>

\* The output directory.
OutBase == "out"

\* The run has entered the session loop of its only activity.
Init ==
    /\ sessions \in UNION {[1..n -> PoolIdx] : n \in 1..MaxSessions}
    /\ verbose \in BOOLEAN
    /\ add_session \in BOOLEAN
    /\ pc = "loop"
    /\ sess_idx = 1
    /\ per_activity_rows = <<>>
    /\ processed_sessions = 0
    /\ printed = IfVerbose(verbose, <<Msg("stdout", "processing_activity", 0)>>)
    /\ out_file = NotRun
    /\ activities = <<Activity(ActivityNames[1], TRUE, sessions)>>
    /\ act_idx = 1
    /\ total_processed_activities = 0
    /\ exit_code = NoExit
    /\ FileIdle
    /\ DetectIdle
    /\ MergeIdle

InLoop == pc = "loop" /\ sess_idx <= Len(sessions)

FilesFound(d) == SessionPool[d].has_accel /\ SessionPool[d].has_gyro

\* Lines 291-294: a file is missing, the session is skipped.
SkipMissing ==
    /\ InLoop
    /\ ~FilesFound(sessions[sess_idx])
    /\ printed' = printed \o IfVerbose(verbose, <<Msg("stdout", "skip_missing", sess_idx)>>)
    /\ sess_idx' = sess_idx + 1
    /\ UNCHANGED <<sessions, verbose, add_session, pc, per_activity_rows,
                   processed_sessions, out_file, detectVars, mergeVars,
                   runVars, fileVars>>

\* Variant of OnMergeFailed: the exception is reported and ends the loop.
OnMergeFailed_Abort(m) ==
    /\ m.status = "error"
    /\ printed' = printed \o MergePrints(verbose, m, sess_idx)
                          \o <<Msg("stderr", "merge_failed", sess_idx)>>
    /\ pc' = "done"
    /\ UNCHANGED <<sessions, verbose, add_session, sess_idx, per_activity_rows,
                   processed_sessions, out_file, detectVars, mergeVars,
                   runVars, fileVars>>

\* Lines 295-299: merge_session raised (m is what it did), the error is
\* printed to stderr and the loop goes on.
OnMergeFailed(m) ==
    /\ m.status = "error"
    /\ printed' = printed \o MergePrints(verbose, m, sess_idx)
                          \o <<Msg("stderr", "merge_failed", sess_idx)>>
    /\ sess_idx' = sess_idx + 1
    /\ UNCHANGED <<sessions, verbose, add_session, pc, per_activity_rows,
                   processed_sessions, out_file, detectVars, mergeVars,
                   runVars, fileVars>>

MergeFailed ==
    /\ InLoop
    /\ FilesFound(sessions[sess_idx])
    /\ OnMergeFailed(MergeResult(sessions[sess_idx]))

\* Lines 300-303: the merge has no rows.
OnMergeEmpty(m) ==
    /\ m.status = "ok"
    /\ m.rows = <<>>
    /\ printed' = printed \o MergePrints(verbose, m, sess_idx)
                          \o IfVerbose(verbose, <<Msg("stdout", "no_rows", sess_idx)>>)
    /\ sess_idx' = sess_idx + 1
    /\ UNCHANGED <<sessions, verbose, add_session, pc, per_activity_rows,
                   processed_sessions, out_file, detectVars, mergeVars,
                   runVars, fileVars>>

MergeEmpty ==
    /\ InLoop
    /\ FilesFound(sessions[sess_idx])
    /\ OnMergeEmpty(MergeResult(sessions[sess_idx]))

\* Lines 305-312: the merged table joins per_activity_rows.
OnMergeAppended(m) ==
    /\ m.status = "ok"
    /\ m.rows # <<>>
    /\ per_activity_rows' =
          Append(per_activity_rows,
                 IF add_session
                 THEN InsertSession([columns |-> m.columns, rows |-> m.rows], SessName(sess_idx))
                 ELSE [columns |-> m.columns, rows |-> m.rows])
    /\ processed_sessions' = processed_sessions + 1
    /\ printed' = printed \o MergePrints(verbose, m, sess_idx)
                          \o IfVerbose(verbose, <<Msg("stdout", "merged", sess_idx)>>)
    /\ sess_idx' = sess_idx + 1
    /\ UNCHANGED <<sessions, verbose, add_session, pc, out_file, detectVars, mergeVars,
                   runVars, fileVars>>

MergeAppended ==
    /\ InLoop
    /\ FilesFound(sessions[sess_idx])
    /\ OnMergeAppended(MergeResult(sessions[sess_idx]))

LoopOver == pc = "loop" /\ sess_idx > Len(sessions)

\* Lines 314-317: no session merged, the activity is skipped.
SkipActivity ==
    /\ LoopOver
    /\ per_activity_rows = <<>>
    /\ printed' = printed \o IfVerbose(verbose, <<Msg("stdout", "no_data", 0)>>)
    /\ pc' = "done"
    /\ UNCHANGED <<sessions, verbose, add_session, sess_idx, per_activity_rows,
                   processed_sessions, out_file, detectVars, mergeVars,
                   runVars, fileVars>>

\* Line 320: pd.concat raises; nothing catches the exception, the
\* interpreter prints the traceback and the process ends with status 1.
ConcatFailed ==
    /\ LoopOver
    /\ per_activity_rows # <<>>
    /\ ConcatRaises(per_activity_rows)
    /\ printed' = Append(printed, Msg("stderr", "traceback", 0))
    /\ exit_code' = <<1>>
    /\ pc' = "crashed"
    /\ UNCHANGED <<sessions, verbose, add_session, sess_idx, per_activity_rows,
                   processed_sessions, out_file, activities, act_idx,
                   total_processed_activities, detectVars, mergeVars, fileVars>>

\* Lines 319-345: concatenate, sort by timestamp, choose the path, write
\* the file, count the activity.
WriteActivity ==
    /\ LoopOver
    /\ per_activity_rows # <<>>
    /\ ~ConcatRaises(per_activity_rows)
    /\ LET activity_df == ConcatTables(per_activity_rows)
       IN  IF InSeq("timestamp", activity_df.columns)
           THEN \E sorted \in SortedArrangements(activity_df.rows,
                                 ColPositions(activity_df.columns, "timestamp")[1]) :
                    out_file' = SelectColumns([activity_df EXCEPT !.rows = sorted],
                                              CsvColumns(add_session, activity_df.columns))
           ELSE out_file' = SelectColumns(activity_df,
                                          CsvColumns(add_session, activity_df.columns))
    /\ requested' = join(OutBase, OutName("", activities[act_idx].name))
    /\ out_path' = make_unique_path(requested', overwrite, DOMAIN fs)
    /\ fs' = WriteFile(fs, out_path')
    /\ printed' = Append(printed, Msg("stdout", "wrote", processed_sessions))
    /\ total_processed_activities' = total_processed_activities + 1
    /\ pc' = "done"
    /\ UNCHANGED <<sessions, verbose, add_session, sess_idx, per_activity_rows,
                   processed_sessions, activities, act_idx, exit_code, overwrite,
                   detectVars, mergeVars>>

Next ==
    \/ SkipMissing
    \/ MergeFailed
    \/ MergeEmpty
    \/ MergeAppended
    \/ SkipActivity
    \/ ConcatFailed
    \/ WriteActivity

Spec == Init /\ [][Next]_vars

(***************************************************************************)
(* Specification SpecRun: a whole run of main, from the list of activity   *)
(* folders to the exit status.  The session loop of each activity is the   *)
(* one of Spec.                                                            *)
(***************************************************************************)
\* What an activity folder can hold: nothing readable as a directory, no
\* session, or the listed session directories of SessionPool.
ActivityPool ==
    <<[is_dir |-> FALSE, sessions |-> <<>>],
      [is_dir |-> TRUE, sessions |-> <<>>],
      [is_dir |-> TRUE, sessions |-> <<1>>],
      [is_dir |-> TRUE, sessions |-> <<5>>],
      [is_dir |-> TRUE, sessions |-> <<6, 4>>],
      [is_dir |-> TRUE, sessions |-> <<7, 2>>],
      [is_dir |-> TRUE, sessions |-> <<8>>],
      [is_dir |-> TRUE, sessions |-> <<1, 8>>]>>

\* The files the output directory can hold before the run.
OutDirPool ==
    {{}, {"out/walk_combined.csv"}, {"out/walk_combined.csv", "out/walk_combined_1.csv"}}

InitRun ==
    /\ \E n \in 0..MaxActivities :
         \E kinds \in [1..n -> 1..Len(ActivityPool)] :
            activities = [k \in 1..n |->
                            Activity(ActivityNames[k], ActivityPool[kinds[k]].is_dir,
                                     ActivityPool[kinds[k]].sessions)]
    /\ verbose \in BOOLEAN
    /\ add_session \in BOOLEAN
    /\ overwrite \in BOOLEAN
    /\ \E existing \in OutDirPool : fs = [p \in existing |-> 0]
    /\ requested = ""
    /\ out_path = ""
    /\ pc = "start"
    /\ act_idx = 0
    /\ total_processed_activities = 0
    /\ exit_code = NoExit
    /\ sessions = <<>>
    /\ sess_idx = 0
    /\ per_activity_rows = <<>>
    /\ processed_sessions = 0
    /\ printed = <<>>
    /\ out_file = NotRun
    /\ DetectIdle
    /\ MergeIdle

\* Lines 257-259: the list of activities is empty.
NoActivities ==
    /\ pc = "start"
    /\ activities = <<>>
    /\ printed' = Append(printed, Msg("stderr", "no_activities", 0))
    /\ exit_code' = <<1>>
    /\ pc' = "exited"
    /\ UNCHANGED <<sessions, verbose, add_session, sess_idx, per_activity_rows,
                   processed_sessions, out_file, activities, act_idx,
                   total_processed_activities, detectVars, mergeVars, fileVars>>

\* Lines 261-264: the output directory is made and the loop over the
\* activities begins.
StartActivities ==
    /\ pc = "start"
    /\ activities # <<>>
    /\ total_processed_activities' = 0
    /\ act_idx' = 1
    /\ pc' = "activities"
    /\ UNCHANGED <<sessions, verbose, add_session, sess_idx, per_activity_rows,
                   processed_sessions, printed, out_file, activities, exit_code,
                   detectVars, mergeVars, fileVars>>

AtActivity == pc = "activities" /\ act_idx <= Len(activities)

\* Lines 266-269: the activity path is not a directory.
SkipNotDir ==
    /\ AtActivity
    /\ ~activities[act_idx].is_dir
    /\ printed' = printed \o IfVerbose(verbose, <<Msg("stdout", "skip_not_dir", 0)>>)
    /\ act_idx' = act_idx + 1
    /\ UNCHANGED <<sessions, verbose, add_session, pc, sess_idx, per_activity_rows,
                   processed_sessions, out_file, activities,
                   total_processed_activities, exit_code, detectVars, mergeVars,
                   fileVars>>

\* Lines 270-280: the activity has no session directory.
SkipNoSessions ==
    /\ AtActivity
    /\ activities[act_idx].is_dir
    /\ activities[act_idx].sessions = <<>>
    /\ printed' = printed \o IfVerbose(verbose, <<Msg("stdout", "no_sessions", 0)>>)
    /\ act_idx' = act_idx + 1
    /\ UNCHANGED <<sessions, verbose, add_session, pc, sess_idx, per_activity_rows,
                   processed_sessions, out_file, activities,
                   total_processed_activities, exit_code, detectVars, mergeVars,
                   fileVars>>

\* Lines 270-286: the sessions are listed and the session loop begins.
EnterActivity ==
    /\ AtActivity
    /\ activities[act_idx].is_dir
    /\ activities[act_idx].sessions # <<>>
    /\ sessions' = activities[act_idx].sessions
    /\ printed' = printed \o IfVerbose(verbose, <<Msg("stdout", "processing_activity", 0)>>)
    /\ per_activity_rows' = <<>>
    /\ processed_sessions' = 0
    /\ sess_idx' = 1
    /\ pc' = "loop"
    /\ UNCHANGED <<verbose, add_session, out_file, activities, act_idx,
                   total_processed_activities, exit_code, detectVars, mergeVars,
                   fileVars>>

\* Line 264: the body of the activity loop has ended (by continue or by
\* reaching line 345), the loop takes the next activity.
NextActivity ==
    /\ pc = "done"
    /\ act_idx' = act_idx + 1
    /\ pc' = "activities"
    /\ UNCHANGED <<sessions, verbose, add_session, sess_idx, per_activity_rows,
                   processed_sessions, printed, out_file, activities,
                   total_processed_activities, exit_code, detectVars, mergeVars,
                   fileVars>>

ActivitiesOver == pc = "activities" /\ act_idx > Len(activities)

\* Lines 347-349.
ExitNoneProcessed ==
    /\ ActivitiesOver
    /\ total_processed_activities = 0
    /\ printed' = Append(printed, Msg("stderr", "none_processed", 0))
    /\ exit_code' = <<2>>
    /\ pc' = "exited"
    /\ UNCHANGED <<sessions, verbose, add_session, sess_idx, per_activity_rows,
                   processed_sessions, out_file, activities, act_idx,
                   total_processed_activities, detectVars, mergeVars, fileVars>>

\* Lines 351-352.
ExitDone ==
    /\ ActivitiesOver
    /\ total_processed_activities # 0
    /\ printed' = Append(printed, Msg("stdout", "done", 0))
    /\ exit_code' = <<0>>
    /\ pc' = "exited"
    /\ UNCHANGED <<sessions, verbose, add_session, sess_idx, per_activity_rows,
                   processed_sessions, out_file, activities, act_idx,
                   total_processed_activities, detectVars, mergeVars, fileVars>>

NextRun ==
    \/ NoActivities
    \/ StartActivities
    \/ SkipNotDir
    \/ SkipNoSessions
    \/ EnterActivity
    \/ SkipMissing
    \/ MergeFailed
    \/ MergeEmpty
    \/ MergeAppended
    \/ SkipActivity
    \/ ConcatFailed
    \/ WriteActivity
    \/ NextActivity
    \/ ExitNoneProcessed
    \/ ExitDone

SpecRun == InitRun /\ [][NextRun]_vars

(***************************************************************************)
(* Specification SpecPaths: writes of the combiner (make_unique_path, then *)
(* to_csv) and of the archive extractor (unique_target_path, then the copy *)
(* of the entry), in any order, on the same files.                         *)
(***************************************************************************)
\* The paths the combiner is asked to write.
CombinePaths == {"out/w.csv", "o.d/w"}

\* The destination directories and entry basenames of the extractor.
DestDirs == {"out", "o.d"}
Basenames == {"w.csv", "w"}

\* The files that can exist before the first write.
ExistingPool == {"out/w.csv", "out/w_1.csv", "out/w_2.csv", "o.d/w"}

WritesLeft == Latest(fs, DOMAIN fs) < MaxWrites

InitPaths ==
    /\ overwrite \in BOOLEAN
    /\ \E existing \in SUBSET ExistingPool : fs = [p \in existing |-> 0]
    /\ requested = ""
    /\ out_path = ""
    /\ RunIdle
    /\ sessions = <<>>
    /\ verbose = FALSE
    /\ add_session = FALSE
    /\ pc = "idle"
    /\ sess_idx = 0
    /\ per_activity_rows = <<>>
    /\ processed_sessions = 0
    /\ printed = <<>>
    /\ out_file = NotRun
    /\ DetectIdle
    /\ MergeIdle

\* Lines 335-343 of combine_csv.py: the path is chosen and the file written.
CombineWrite ==
    /\ WritesLeft
    /\ \E path \in CombinePaths :
         /\ requested' = path
         /\ out_path' = make_unique_path(path, overwrite, DOMAIN fs)
    /\ fs' = WriteFile(fs, out_path')
    /\ UNCHANGED <<overwrite, detectVars, mergeVars, mainVars, runVars>>

\* Lines 102-111 of extract_from_zip.py: the target is chosen and the entry
\* copied to it.
ExtractEntry ==
    /\ WritesLeft
    /\ \E dest_dir \in DestDirs, orig_basename \in Basenames :
         /\ requested' = join(dest_dir, orig_basename)
         /\ out_path' = unique_target_path(dest_dir, orig_basename, overwrite, DOMAIN fs)
    /\ fs' = WriteFile(fs, out_path')
    /\ UNCHANGED <<overwrite, detectVars, mergeVars, mainVars, runVars>>

NextPaths == CombineWrite \/ ExtractEntry

SpecPaths == InitPaths /\ [][NextPaths]_vars

(***************************************************************************)
(* Claims about the session loop (checked under Spec)                      *)
(***************************************************************************)
SessIdx == 1..Len(sessions)

Dir(i) == SessionPool[sessions[i]]

HasBothFiles(i) == Dir(i).has_accel /\ Dir(i).has_gyro

\* The MergedSession of session i, for the sessions that have both files.
MergedSessionOf(i) == MergeResult(sessions[i])

MergeRaises(i) == HasBothFiles(i) /\ MergedSessionOf(i).status = "error"

\* Session i merged successfully with at least one row.
Contributes(i) ==
    /\ HasBothFiles(i)
    /\ MergedSessionOf(i).status = "ok"
    /\ MergedSessionOf(i).rows # <<>>

\* The rows session i is expected to put in the activity's file.
RowsOf(i) ==
    IF ~Contributes(i) THEN <<>>
    ELSE [r \in 1..Len(MergedSessionOf(i).rows) |->
             IF add_session THEN <<SessName(i)>> \o MergedSessionOf(i).rows[r]
             ELSE MergedSessionOf(i).rows[r]]

RECURSIVE SumOver(_, _)
SumOver(f, S) ==
    IF S = {} THEN 0
    ELSE LET i == CHOOSE j \in S : TRUE IN f[i] + SumOver(f, S \ {i})

ExpectedRowSet == UNION {{RowsOf(i)[r] : r \in 1..Len(RowsOf(i))} : i \in SessIdx}

\* The written rows are the rows of the contributing sessions, as a multiset.
SameRowsAsSessions(rows) ==
    /\ \A n \in 1..Len(rows) : rows[n] \in ExpectedRowSet
    /\ \A row \in ExpectedRowSet :
         CountRows(rows, row) = SumOver([i \in SessIdx |-> CountRows(RowsOf(i), row)], SessIdx)

\* The tables gathered so far are those of the contributing sessions among
\* the sessions the loop has passed, in session order.
GatheredSoFar ==
    LET passed == {i \in SessIdx : i < sess_idx /\ Contributes(i)}
    IN  /\ Len(per_activity_rows) = Cardinality(passed)
        /\ \A i \in passed :
             per_activity_rows[Cardinality({j \in passed : j <= i})].rows = RowsOf(i)

Reported(what, i) == \E k \in 1..Len(printed) : printed[k].what = what /\ printed[k].sess = i

\* C9: every skipped session (missing file, or merge error) and every
\* activity skipped because none of its sessions merged is reported by a
\* printed message, whether or not verbose is set.
C9_EverySkipPrinted ==
    /\ \A i \in SessIdx :
         i < sess_idx =>
            /\ ~HasBothFiles(i) => Reported("skip_missing", i)
            /\ MergeRaises(i) => Reported("merge_failed", i)
    /\ (pc = "done" /\ out_file = NotRun) => Reported("no_data", 0)

TsPos == ColPositions(out_file.columns, "timestamp")[1]

\* Numbers ascending, rows without a numeric timestamp after all of them.
TimestampAscending(rows, p) ==
    \A m, n \in 1..Len(rows) :
        m < n =>
           /\ rows[m][p][1] = "nan" => rows[n][p][1] = "nan"
           /\ (rows[m][p][1] = "num" /\ rows[n][p][1] = "num") => rows[m][p][2] <= rows[n][p][2]

\* C10: the table written for an activity holds exactly the rows of all its
\* non-empty MergedSessions, none lost, added or duplicated (its row count
\* is the sum of theirs), ordered by timestamp ascending across sessions.
C10_ConcatSorted ==
    out_file # NotRun =>
        /\ Len(out_file.rows) =
              SumOver([i \in SessIdx |->
                          IF Contributes(i) THEN Len(MergedSessionOf(i).rows) ELSE 0], SessIdx)
        /\ SameRowsAsSessions(out_file.rows)
        /\ TimestampAscending(out_file.rows, TsPos)

\* C10 witness: two sessions contribute, the first has timestamps on both
\* sides of the second's, and the file has the rows of both.
C10_Witness ==
    /\ out_file # NotRun
    /\ Len(sessions) >= 2
    /\ Contributes(1) /\ Contributes(2)
    /\ Len(out_file.rows) = Len(MergedSessionOf(1).rows) + Len(MergedSessionOf(2).rows)
    /\ \E r, q \in 1..Len(MergedSessionOf(1).rows) :
         /\ MergedSessionOf(1).rows[r][1][2] < MergedSessionOf(2).rows[1][1][2]
         /\ MergedSessionOf(2).rows[1][1][2] < MergedSessionOf(1).rows[q][1][2]
         /\ MergedSessionOf(2).rows[1][1][1] = "num"

(***************************************************************************)
(* Claims about the exit status (checked under SpecRun)                    *)
(***************************************************************************)
\* The paths this run has written (the files found before the run have
\* ordinal 0).
WrittenByRun == {p \in DOMAIN fs : fs[p] > 0}

\* C11: the run exits with status 0 if and only if at least one activity
\* file was written; it exits with one nonzero status (1) when no activity
\* folder was found and with a different nonzero status (2) when activities
\* were found but no file was written.
C11_ExitStatus ==
    exit_code # NoExit =>
        /\ exit_code = <<0>> <=> WrittenByRun # {}
        /\ activities = <<>> => exit_code = <<1>>
        /\ (activities # <<>> /\ WrittenByRun = {}) => exit_code = <<2>>

(***************************************************************************)
(* Claims about the choice of paths (checked under SpecPaths)              *)
(***************************************************************************)
\* <base>_k<ext> of a requested path.
Numbered(path, k) == splitext(path)[1] \o "_" \o Str(k) \o splitext(path)[2]

\* The path the policy prescribes without overwrite: the requested path if
\* it is free, otherwise the numbered path with the smallest free k >= 1.
PolicyChoice(path, chosen, existing) ==
    IF path \notin existing THEN chosen = path
    ELSE \E k \in 1..(Cardinality(existing) + 1) :
            /\ chosen = Numbered(path, k)
            /\ \A j \in 1..(k - 1) : Numbered(path, j) \in existing

\* What a write of either tool does, from the files before to the files
\* after.
WriteFollowsPolicy ==
    fs' # fs =>
        /\ out_path' \in DOMAIN fs'
        /\ \A p \in DOMAIN fs : p \in DOMAIN fs' /\ (p # out_path' => fs'[p] = fs[p])
        /\ IF overwrite
           THEN out_path' = requested'
           ELSE /\ out_path' \notin DOMAIN fs
                /\ PolicyChoice(requested', out_path', DOMAIN fs)
                /\ \A p \in DOMAIN fs : fs'[p] = fs[p]

\* C12: with overwrite disabled the path chosen for a write is the
\* requested path if it does not exist, otherwise <base>_k<ext> for the
\* smallest k >= 1 that does not exist; it never names an existing file, so
\* no file written earlier is replaced.  With overwrite enabled the
\* requested path is chosen unchanged.  The combiner and the archive
\* extractor follow the same policy.
C12_UniquePathPolicy == [][WriteFollowsPolicy]_vars

\* C12 witness: without overwrite, out/w.csv existed, a first write gave
\* out/w_1.csv and a second write of the same path gave out/w_2.csv.
C12_Witness ==
    /\ ~overwrite
    /\ requested = "out/w.csv"
    /\ out_path = "out/w_2.csv"
    /\ DOMAIN fs = {"out/w.csv", "out/w_1.csv", "out/w_2.csv"}
    /\ fs["out/w.csv"] = 0
    /\ fs["out/w_1.csv"] = 1
    /\ fs["out/w_2.csv"] = 2

====
